---- MODULE Spec2Model ----
(***************************************************************************)
(* State machine of the React component App of the news-scrapper client.   *)
(*                                                                         *)
(* Two snapshots of the component are in the repository:                   *)
(*   "current" : src/frontend/src/App.js  (keywords, /documents/process)   *)
(*   "legacy"  : src/unnamed/part_000     (no keywords, /documents/filter) *)
(* The variable snapshot says which one runs; it never changes.            *)
(*                                                                         *)
(* Every handler is cut at its awaits: the click action is the code up to  *)
(* the fetch, the ...Settled action is the code after the await (try,      *)
(* catch and finally together).  The service behind the fetches is not     *)
(* among these sources: in Spec and StoreSpec the outcome of a fetch is    *)
(* chosen nondeterministically, in BackendSpec the count and the clear are *)
(* answered by a service that follows its endpoint contracts.              *)
(***************************************************************************)
EXTENDS Integers, Sequences, FiniteSets, TLC

VARIABLES
    snapshot,            \* which source file is running
    crashed,             \* render threw (component unmounted)
    selectedSources,     \* useState([])   ordered list of source ids
    loading,             \* useState(false)
    loadingDisplay,      \* useState(false)
    error,               \* useState('')
    successMessage,      \* useState('')
    totalInDB,           \* useState(0)
    keywordInput,        \* useState('')   (current only)
    keywordEntries,      \* useState([])   (current only)
    processedDocuments,  \* useState([])   (current only)
    regularDocuments,    \* useState([])   (current only)
    documents,           \* useState([])   (legacy only)
    scrapeReqs,          \* POST /scrape requests in flight (their bodies)
    displayReqs,         \* POST /documents/process|filter in flight
    countReqs,           \* GET /documents?limit=1 in flight
    deleteReqs,          \* DELETE /documents in flight
    backend              \* the server: its store and the replies it has sent

vars == <<snapshot, crashed, selectedSources, loading, loadingDisplay, error,
          successMessage, totalInDB, keywordInput, keywordEntries,
          processedDocuments, regularDocuments, documents,
          scrapeReqs, displayReqs, countReqs, deleteReqs, backend>>

(***************************************************************************)
(* Bounds of the model                                                     *)
(***************************************************************************)
MaxKeywords == 1      \* longest keywordEntries list explored
MaxCountReqs == 2     \* count requests in flight at once
MaxDeleteReqs == 2    \* delete requests in flight at once
MaxStoreKeywords == 2 \* longest keywordEntries list explored by StoreSpec

\* the source buttons the model clicks (ids of the catalog)
ClickedSources == {"RBI"}
\* the text typed into the keyword input, as a sequence of characters (the
\* input is empty at first and after an addition; StoreSpec types more)
InputTexts == { <<" ", "a", " ">> }
\* keys pressed in the keyword input
Keys == {"Enter", "a"}
\* values of the total field of a response
Totals == {2}
\* values of the total field of a /scrape response
ScrapedTotals == {1, 2}
\* the source buttons and the keyword texts of StoreSpec; the empty text is
\* what the input holds at first and after an addition
StoreSources == {"RBI", "Income Tax"}
StoreTexts == { <<" ">>, <<" ", "a", " ">>, <<"a", " ", "b", " ">> }

(***************************************************************************)
(* JavaScript values                                                       *)
(***************************************************************************)
JSUndefined == [type |-> "undefined", items |-> <<>>, value |-> 0]
JSNull == [type |-> "null", items |-> <<>>, value |-> 0]
JSArray(s) == [type |-> "array", items |-> s, value |-> 0]
JSNumber(n) == [type |-> "number", items |-> <<>>, value |-> n]

\* x || []
OrEmptyArray(x) == IF x.type = "array" THEN x.items ELSE <<>>
\* x?.length || 0
LengthOrZero(x) == IF x.type = "array" THEN Len(x.items) ELSE 0

Whitespace == {" ", "\t", "\n"}

RECURSIVE TrimStart(_)
TrimStart(s) ==
    IF s # <<>> /\ Head(s) \in Whitespace THEN TrimStart(Tail(s)) ELSE s

RECURSIVE TrimEnd(_)
TrimEnd(s) ==
    IF s # <<>> /\ s[Len(s)] \in Whitespace
    THEN TrimEnd(SubSeq(s, 1, Len(s) - 1)) ELSE s

\* String.prototype.trim
Trim(s) == TrimEnd(TrimStart(s))

\* Array.prototype.includes
Includes(list, x) == \E i \in 1..Len(list) : list[i] = x

\* Array.prototype.filter(s => s !== x)
RECURSIVE FilterOut(_, _)
FilterOut(list, x) ==
    IF list = <<>> THEN <<>>
    ELSE IF Head(list) = x THEN FilterOut(Tail(list), x)
    ELSE <<Head(list)>> \o FilterOut(Tail(list), x)

\* RemoveAt filtering by the value found at the position
RemoveAt_ByValue(list, index) ==
    IF index \in 0..(Len(list) - 1) THEN FilterOut(list, list[index + 1]) ELSE list

\* Array.prototype.filter((_, i) => i !== index), index counted from 0
RemoveAt(list, index) ==
    LET keep == { i \in 1..Len(list) : i - 1 # index }
        F[k \in 0..Len(list)] ==
            IF k = 0 THEN <<>>
            ELSE IF k \in keep THEN Append(F[k - 1], list[k]) ELSE F[k - 1]
    IN F[Len(list)]

(***************************************************************************)
(* The source catalog                                                      *)
(***************************************************************************)
sources ==
    IF snapshot = "current"
    THEN <<"RBI", "Income Tax", "GST Council", "ICAI", "Press Releases",
           "DPIIT", "India Budget", "IBBI", "IRDAI", "EPFO", "MOSPI", "DOR">>
    ELSE <<"RBI", "Income Tax", "GST Council">>

(***************************************************************************)
(* Messages.  A message is the text of its template and the values that    *)
(* the template interpolates; '' is the message with the empty text.       *)
(***************************************************************************)
Message(text, n, srcs, kws, aiDocs, tiles) ==
    [text |-> text, n |-> n, sources |-> srcs, keywords |-> kws,
     aiDocs |-> aiDocs, tiles |-> tiles]

EmptyString == Message("", 0, <<>>, JSNull, 0, JSUndefined)

\* truthiness of a string: {error && ...}, {successMessage && ...}
Shown(m) == m.text # ""

MsgSelectSource ==
    Message("Please select at least one source", 0, <<>>, JSNull, 0, JSUndefined)
MsgSelectSourceDisplay ==
    Message("Please select at least one source to display documents",
            0, <<>>, JSNull, 0, JSUndefined)
MsgScraped(total) ==
    Message("Successfully scraped and saved ${total} documents to database!",
            total, <<>>, JSNull, 0, JSUndefined)
MsgScrapeFailed ==
    Message("Failed to scrape and save documents. Please ensure the backend and MongoDB are running.",
            0, <<>>, JSNull, 0, JSUndefined)
MsgDisplayFailed ==
    Message("Failed to fetch and process documents. Please ensure MongoDB and Gemini API are configured.",
            0, <<>>, JSNull, 0, JSUndefined)
MsgDisplayFailedLegacy ==
    Message("Failed to fetch documents from database. Please ensure MongoDB is running.",
            0, <<>>, JSNull, 0, JSUndefined)
MsgCleared ==
    Message("Database cleared successfully", 0, <<>>, JSNull, 0, JSUndefined)
MsgClearFailed ==
    Message("Failed to clear database", 0, <<>>, JSNull, 0, JSUndefined)

\* keywords ? ` with keywords: ${keywords.join(', ')}` : ''  -- the message
\* keeps the keywords value: null stands for the empty keywordText
MsgNoDocuments(srcs, keywords) ==
    Message("No documents found for selected sources: ${sources}${keywordText}",
            0, srcs, keywords, 0, JSUndefined)
\* aiDocText is '' unless data.processed_documents?.length > 0
MsgDisplaying(totalDocs, srcs, keywords, processed, total_tiles) ==
    Message("Displaying ${totalDocs} documents from ${sources}${keywordText}${aiDocText}",
            totalDocs, srcs, keywords,
            LengthOrZero(processed),
            IF LengthOrZero(processed) > 0 THEN total_tiles ELSE JSUndefined)

(***************************************************************************)
(* Outcomes of a fetch: a 2xx response with its JSON body, a response      *)
(* with response.ok false, or a rejected promise (transport failure).      *)
(***************************************************************************)
Tiles(n) == [i \in 1..n |-> i]
\* the tiled document of id i has i tiles
TiledDoc(i) == [id |-> i, tiles |-> Tiles(i)]
PlainDoc(i) == [id |-> i, tiles |-> <<>>]
\* the document lists a response may hold
TiledLists == { <<>>, <<TiledDoc(2), TiledDoc(1)>> }
PlainLists == { <<>>, <<PlainDoc(3)>> }
\* values of the total_tiles field of a response
TileTotals == {1, 3}

ProcessData(p, r, t) ==
    [processed_documents |-> p, regular_documents |-> r,
     documents |-> JSUndefined, total_tiles |-> t, total |-> 0]
FilterData(d) ==
    [processed_documents |-> JSUndefined, regular_documents |-> JSUndefined,
     documents |-> d, total_tiles |-> JSUndefined, total |-> 0]
TotalData(n) ==
    [processed_documents |-> JSUndefined, regular_documents |-> JSUndefined,
     documents |-> JSUndefined, total_tiles |-> JSUndefined, total |-> n]
NoData == TotalData(0)

\* {processed_documents, regular_documents, total_tiles}
PartitionedBodies ==
    { ProcessData(JSArray(p), JSArray(r), JSNumber(t)) :
        p \in TiledLists, r \in PlainLists, t \in TileTotals }
\* {documents}
FlatBodies == { FilterData(JSArray(d)) : d \in PlainLists }

Ok(data) == [kind |-> "ok", data |-> data]
NotOk == [kind |-> "notOk", data |-> NoData]
Threw == [kind |-> "threw", data |-> NoData]
Failures == {NotOk, Threw}

ScrapeOutcomes == { Ok(TotalData(n)) : n \in ScrapedTotals } \cup Failures
CountOutcomes == { Ok(TotalData(n)) : n \in Totals } \cup Failures
DisplayOutcomes == { Ok(b) : b \in PartitionedBodies \cup FlatBodies } \cup Failures
DeleteOutcomes == { Ok(NoData) } \cup Failures

(***************************************************************************)
(* The service behind API_URL.  Its code is not part of the client; the    *)
(* contracts are GET /documents -> {total, documents}, and DELETE          *)
(* /documents -> 2xx on success, clears the persisted store.  persisted is *)
(* the number of stored documents; countReplies and deleteReplies are the  *)
(* replies the service has sent and the client has not received yet.       *)
(***************************************************************************)
\* documents an earlier session left in the store
StoredAtStart == 2

BackendAtStart ==
    [persisted |-> StoredAtStart, countReplies |-> <<>>, deleteReplies |-> <<>>]

(***************************************************************************)
(* Initial state: the useState defaults, and the mount effect has already  *)
(* issued its fetchTotalCount.                                             *)
(***************************************************************************)
Init ==
    /\ snapshot \in {"current", "legacy"}
    /\ crashed = FALSE
    /\ selectedSources = <<>>
    /\ loading = FALSE
    /\ loadingDisplay = FALSE
    /\ error = EmptyString
    /\ successMessage = EmptyString
    /\ totalInDB = 0
    /\ keywordInput = <<>>
    /\ keywordEntries = <<>>
    /\ processedDocuments = <<>>
    /\ regularDocuments = <<>>
    /\ documents = JSArray(<<>>)
    /\ scrapeReqs = <<>>
    /\ displayReqs = <<>>
    /\ countReqs = 1
    /\ deleteReqs = 0
    /\ backend = BackendAtStart

\* the component is mounted and its buttons can be used
Mounted == ~crashed

selectionVars == <<selectedSources, keywordInput, keywordEntries>>
resultVars == <<processedDocuments, regularDocuments, documents>>
reqVars == <<scrapeReqs, displayReqs, countReqs, deleteReqs>>

(***************************************************************************)
(* Selection store                                                         *)
(***************************************************************************)
\* ToggleSource without the test of prev.includes
ToggleSource_AppendOnly(prev, sourceId) == Append(prev, sourceId)

\* prev => prev.includes(id) ? prev.filter(s => s !== id) : [...prev, id]
ToggleSource(prev, sourceId) ==
    IF Includes(prev, sourceId) THEN FilterOut(prev, sourceId)
    ELSE Append(prev, sourceId)

\* HandleSourceToggle that also empties the keyword tags
HandleSourceToggle_ResetsKeywords(sourceId) ==
    /\ Mounted
    /\ Includes(sources, sourceId)
    /\ selectedSources' = ToggleSource(selectedSources, sourceId)
    /\ keywordEntries' = <<>>
    /\ UNCHANGED <<snapshot, crashed, loading, loadingDisplay, error,
                   successMessage, totalInDB, keywordInput,
                   resultVars, reqVars>>
    /\ UNCHANGED backend

HandleSourceToggle(sourceId) ==
    /\ Mounted
    /\ Includes(sources, sourceId)
    /\ selectedSources' = ToggleSource(selectedSources, sourceId)
    /\ UNCHANGED <<snapshot, crashed, loading, loadingDisplay, error,
                   successMessage, totalInDB, keywordInput, keywordEntries,
                   resultVars, reqVars>>
    /\ UNCHANGED backend

\* onChange={(e) => setKeywordInput(e.target.value)}
SetKeywordInput(text) ==
    /\ Mounted
    /\ snapshot = "current"
    /\ keywordInput' = text
    /\ UNCHANGED <<snapshot, crashed, selectedSources, loading, loadingDisplay,
                   error, successMessage, totalInDB, keywordEntries,
                   resultVars, reqVars>>
    /\ UNCHANGED backend

\* AddKeywordEntryBody without the test of keywordInput.trim()
AddKeywordEntryBody_NoTest ==
    /\ keywordEntries' = Append(keywordEntries, Trim(keywordInput))
    /\ keywordInput' = <<>>

\* AddKeywordEntryBody storing keywordInput as typed
AddKeywordEntryBody_NoTrim ==
    IF Trim(keywordInput) # <<>>
    THEN /\ keywordEntries' = Append(keywordEntries, keywordInput)
         /\ keywordInput' = <<>>
    ELSE UNCHANGED <<keywordEntries, keywordInput>>

\* the body of addKeywordEntry
AddKeywordEntryBody ==
    IF Trim(keywordInput) # <<>>
    THEN /\ keywordEntries' = Append(keywordEntries, Trim(keywordInput))
         /\ keywordInput' = <<>>
    ELSE UNCHANGED <<keywordEntries, keywordInput>>

\* the Add button
AddKeywordEntry ==
    /\ Mounted
    /\ snapshot = "current"
    /\ AddKeywordEntryBody
    /\ UNCHANGED <<snapshot, crashed, selectedSources, loading, loadingDisplay,
                   error, successMessage, totalInDB, resultVars, reqVars>>
    /\ UNCHANGED backend

\* onKeyPress of the keyword input
HandleKeyPress(key) ==
    /\ Mounted
    /\ snapshot = "current"
    /\ IF key = "Enter" THEN AddKeywordEntryBody
       ELSE UNCHANGED <<keywordEntries, keywordInput>>
    /\ UNCHANGED <<snapshot, crashed, selectedSources, loading, loadingDisplay,
                   error, successMessage, totalInDB, resultVars, reqVars>>
    /\ UNCHANGED backend

\* the model explores keywordEntries up to cap entries: an addition is taken
\* only while the list is shorter, a blank input (which adds nothing) always
KeywordRoom(cap) == Len(keywordEntries) < cap \/ Trim(keywordInput) = <<>>

\* what a call removeKeywordEntry(index) comes to, for any integer index:
\* filter builds the list without position index and throws for no index,
\* and the handler has no other statement (no setError, no throw)
RemoveKeywordEntryOutcome(index) ==
    [kind |-> "returned", entries |-> RemoveAt(keywordEntries, index)]

\* the remove button of the tag rendered for position index
RemoveKeywordEntry(index) ==
    /\ Mounted
    /\ snapshot = "current"
    /\ index \in 0..(Len(keywordEntries) - 1)
    /\ keywordEntries' = RemoveKeywordEntryOutcome(index).entries
    /\ UNCHANGED <<snapshot, crashed, selectedSources, loading, loadingDisplay,
                   error, successMessage, totalInDB, keywordInput,
                   resultVars, reqVars>>
    /\ UNCHANGED backend

(***************************************************************************)
(* Acquisition controller: handleScrapeAndSave                             *)
(***************************************************************************)
\* the request of position i has settled and leaves the network
Without(reqs, i) == SubSeq(reqs, 1, i - 1) \o SubSeq(reqs, i + 1, Len(reqs))

\* JSON.stringify({ sources: selectedSources })
ScrapeBody == [sources |-> selectedSources]

\* disabled={loading}
ScrapeButtonDisabled == loading

\* ScrapeStart without the check of selectedSources.length
ScrapeStart_NoValidation ==
    /\ loading' = TRUE
    /\ error' = EmptyString
    /\ successMessage' = EmptyString
    /\ scrapeReqs' = Append(scrapeReqs, ScrapeBody)

\* handleScrapeAndSave up to the await of fetch
ScrapeStart ==
    IF Len(selectedSources) = 0
    THEN /\ error' = MsgSelectSource
         /\ UNCHANGED <<loading, successMessage, scrapeReqs>>
    ELSE /\ loading' = TRUE
         /\ error' = EmptyString
         /\ successMessage' = EmptyString
         /\ scrapeReqs' = Append(scrapeReqs, ScrapeBody)

\* HandleScrapeAndSave raising one flag shared by the two buttons
HandleScrapeAndSave_SharedFlag ==
    /\ Mounted
    /\ ~ScrapeButtonDisabled
    /\ ScrapeStart
    /\ loadingDisplay' = loading'
    /\ UNCHANGED <<snapshot, crashed, totalInDB, selectionVars,
                   resultVars, displayReqs, countReqs, deleteReqs>>
    /\ UNCHANGED backend

HandleScrapeAndSave ==
    /\ Mounted
    /\ ~ScrapeButtonDisabled
    /\ ScrapeStart
    /\ UNCHANGED <<snapshot, crashed, loadingDisplay, totalInDB, selectionVars,
                   resultVars, displayReqs, countReqs, deleteReqs>>
    /\ UNCHANGED backend

\* ScrapeFinish without the finally block
ScrapeFinish_KeepsLoading(outcome) ==
    /\ IF outcome.kind = "ok"
       THEN /\ successMessage' = MsgScraped(outcome.data.total)
            /\ countReqs' = countReqs + 1
            /\ UNCHANGED error
       ELSE /\ error' = MsgScrapeFailed
            /\ UNCHANGED <<successMessage, countReqs>>
    /\ UNCHANGED loading

\* ScrapeFinish calling fetchTotalCount in the finally block
ScrapeFinish_RefreshAlways(outcome) ==
    /\ IF outcome.kind = "ok"
       THEN /\ successMessage' = MsgScraped(outcome.data.total)
            /\ UNCHANGED error
       ELSE /\ error' = MsgScrapeFailed
            /\ UNCHANGED successMessage
    /\ countReqs' = countReqs + 1
    /\ loading' = FALSE

\* ScrapeFinish without the call of fetchTotalCount
ScrapeFinish_NoRefresh(outcome) ==
    /\ IF outcome.kind = "ok"
       THEN /\ successMessage' = MsgScraped(outcome.data.total)
            /\ UNCHANGED <<error, countReqs>>
       ELSE /\ error' = MsgScrapeFailed
            /\ UNCHANGED <<successMessage, countReqs>>
    /\ loading' = FALSE

\* handleScrapeAndSave after the await: try, catch, finally
ScrapeFinish(outcome) ==
    /\ IF outcome.kind = "ok"
       THEN /\ successMessage' = MsgScraped(outcome.data.total)
            /\ countReqs' = countReqs + 1       \* fetchTotalCount()
            /\ UNCHANGED error
       ELSE /\ error' = MsgScrapeFailed
            /\ UNCHANGED <<successMessage, countReqs>>
    /\ loading' = FALSE

ScrapeSettled(i, outcome) ==
    /\ Mounted
    /\ i \in 1..Len(scrapeReqs)
    /\ outcome.kind = "ok" => countReqs < MaxCountReqs
    /\ ScrapeFinish(outcome)
    /\ scrapeReqs' = Without(scrapeReqs, i)
    /\ UNCHANGED <<snapshot, crashed, loadingDisplay, totalInDB, selectionVars,
                   resultVars, displayReqs, deleteReqs>>

(***************************************************************************)
(* Retrieval controller: handleDisplayFromDB                               *)
(***************************************************************************)
\* Keywords without the test of keywordEntries.length
Keywords_AlwaysList ==
    IF snapshot = "current" THEN JSArray(keywordEntries) ELSE JSUndefined

\* keywordEntries.length > 0 ? keywordEntries : null   (legacy: no such key)
Keywords ==
    IF snapshot = "current"
    THEN IF Len(keywordEntries) > 0 THEN JSArray(keywordEntries) ELSE JSNull
    ELSE JSUndefined

\* the ResultSet on screen
ResultSet == <<processedDocuments, regularDocuments, documents>>

\* the request body; the handler's closure keeps the same two values.
\* before is a history field: the ResultSet when the handler was invoked.
DisplayBody ==
    [sources |-> selectedSources, keywords |-> Keywords, before |-> ResultSet]

\* the display button without its disabled attribute
DisplayButtonDisabled_Never == FALSE

\* disabled={loadingDisplay}
DisplayButtonDisabled == loadingDisplay

\* DisplayStart without setProcessedDocuments([]) and setRegularDocuments([])
DisplayStart_KeepResults ==
    IF Len(selectedSources) = 0
    THEN /\ error' = MsgSelectSourceDisplay
         /\ UNCHANGED <<loadingDisplay, successMessage, processedDocuments,
                        regularDocuments, displayReqs>>
    ELSE /\ loadingDisplay' = TRUE
         /\ error' = EmptyString
         /\ successMessage' = EmptyString
         /\ UNCHANGED <<processedDocuments, regularDocuments>>
         /\ displayReqs' = Append(displayReqs, DisplayBody)

\* handleDisplayFromDB up to the await of fetch
DisplayStart ==
    IF Len(selectedSources) = 0
    THEN /\ error' = MsgSelectSourceDisplay
         /\ UNCHANGED <<loadingDisplay, successMessage, processedDocuments,
                        regularDocuments, displayReqs>>
    ELSE /\ loadingDisplay' = TRUE
         /\ error' = EmptyString
         /\ successMessage' = EmptyString
         /\ IF snapshot = "current"
            THEN /\ processedDocuments' = <<>>
                 /\ regularDocuments' = <<>>
            ELSE UNCHANGED <<processedDocuments, regularDocuments>>
         /\ displayReqs' = Append(displayReqs, DisplayBody)

HandleDisplayFromDB ==
    /\ Mounted
    /\ ~DisplayButtonDisabled
    /\ DisplayStart
    /\ UNCHANGED <<snapshot, crashed, loading, totalInDB, selectionVars,
                   documents, scrapeReqs, countReqs, deleteReqs>>
    /\ UNCHANGED backend

\* (data.processed_documents?.length || 0) + (data.regular_documents?.length || 0)
TotalDocs(data) ==
    LengthOrZero(data.processed_documents) + LengthOrZero(data.regular_documents)

\* DisplayFinishCurrent reading a flat body as plain documents
DisplayFinishCurrent_AcceptsFlat(req, outcome) ==
    /\ IF outcome.kind = "ok"
       THEN LET data == outcome.data
                plain == IF data.processed_documents.type = "array"
                         THEN data.regular_documents ELSE data.documents
                total == LengthOrZero(data.processed_documents) + LengthOrZero(plain)
            IN
            /\ processedDocuments' = OrEmptyArray(data.processed_documents)
            /\ regularDocuments' = OrEmptyArray(plain)
            /\ IF total = 0
               THEN /\ error' = MsgNoDocuments(req.sources, req.keywords)
                    /\ UNCHANGED successMessage
               ELSE /\ successMessage' =
                          MsgDisplaying(total, req.sources, req.keywords,
                                        data.processed_documents, data.total_tiles)
                    /\ UNCHANGED error
       ELSE /\ error' = MsgDisplayFailed
            /\ UNCHANGED <<successMessage, processedDocuments, regularDocuments>>
    /\ loadingDisplay' = FALSE
    /\ UNCHANGED <<documents, crashed>>

\* DisplayFinishCurrent reading the selection of the time of completion
\* instead of the one its closure holds
DisplayFinishCurrent_NamesCurrentSelection(req, outcome) ==
    /\ IF outcome.kind = "ok"
       THEN LET data == outcome.data IN
            /\ processedDocuments' = OrEmptyArray(data.processed_documents)
            /\ regularDocuments' = OrEmptyArray(data.regular_documents)
            /\ IF TotalDocs(data) = 0
               THEN /\ error' = MsgNoDocuments(selectedSources, Keywords)
                    /\ UNCHANGED successMessage
               ELSE /\ successMessage' =
                          MsgDisplaying(TotalDocs(data), selectedSources, Keywords,
                                        data.processed_documents, data.total_tiles)
                    /\ UNCHANGED error
       ELSE /\ error' = MsgDisplayFailed
            /\ UNCHANGED <<successMessage, processedDocuments, regularDocuments>>
    /\ loadingDisplay' = FALSE
    /\ UNCHANGED <<documents, crashed>>

\* src/frontend/src/App.js: after the await
DisplayFinishCurrent(req, outcome) ==
    /\ IF outcome.kind = "ok"
       THEN LET data == outcome.data IN
            /\ processedDocuments' = OrEmptyArray(data.processed_documents)
            /\ regularDocuments' = OrEmptyArray(data.regular_documents)
            /\ IF TotalDocs(data) = 0
               THEN /\ error' = MsgNoDocuments(req.sources, req.keywords)
                    /\ UNCHANGED successMessage
               ELSE /\ successMessage' =
                          MsgDisplaying(TotalDocs(data), req.sources, req.keywords,
                                        data.processed_documents, data.total_tiles)
                    /\ UNCHANGED error
       ELSE /\ error' = MsgDisplayFailed
            /\ UNCHANGED <<successMessage, processedDocuments, regularDocuments>>
    /\ loadingDisplay' = FALSE
    /\ UNCHANGED <<documents, crashed>>

\* DisplayFinishLegacy appending the response to the list on screen
DisplayFinishLegacy_Merge(req, outcome) ==
    /\ IF outcome.kind = "ok"
       THEN LET data == outcome.data IN
            /\ documents' = JSArray(OrEmptyArray(documents) \o OrEmptyArray(data.documents))
            /\ crashed' = FALSE
            /\ IF LengthOrZero(data.documents) = 0
               THEN /\ error' = MsgNoDocuments(req.sources, JSNull)
                    /\ UNCHANGED successMessage
               ELSE /\ successMessage' =
                          MsgDisplaying(Len(data.documents.items), req.sources,
                                        JSNull, JSUndefined, JSUndefined)
                    /\ UNCHANGED error
       ELSE /\ error' = MsgDisplayFailedLegacy
            /\ UNCHANGED <<successMessage, documents, crashed>>
    /\ loadingDisplay' = FALSE
    /\ UNCHANGED <<processedDocuments, regularDocuments>>

\* src/unnamed/part_000: after the await.  setDocuments(data.documents) comes
\* first; data.documents.length then throws when the field is missing, and
\* the next render throws on documents.length.
DisplayFinishLegacy(req, outcome) ==
    /\ IF outcome.kind = "ok"
       THEN LET data == outcome.data IN
            /\ documents' = data.documents
            /\ IF data.documents.type # "array"
               THEN /\ error' = MsgDisplayFailedLegacy
                    /\ UNCHANGED successMessage
                    /\ crashed' = TRUE
               ELSE /\ crashed' = FALSE
                    /\ IF Len(data.documents.items) = 0
                       THEN /\ error' = MsgNoDocuments(req.sources, JSNull)
                            /\ UNCHANGED successMessage
                       ELSE /\ successMessage' =
                                  MsgDisplaying(Len(data.documents.items), req.sources,
                                                JSNull, JSUndefined, JSUndefined)
                            /\ UNCHANGED error
       ELSE /\ error' = MsgDisplayFailedLegacy
            /\ UNCHANGED <<successMessage, documents, crashed>>
    /\ loadingDisplay' = FALSE
    /\ UNCHANGED <<processedDocuments, regularDocuments>>

DisplayFinish(req, outcome) ==
    IF snapshot = "current" THEN DisplayFinishCurrent(req, outcome)
    ELSE DisplayFinishLegacy(req, outcome)

\* DisplaySettled dropping the response of a request whose selection is no
\* longer the one on screen
DisplaySettled_Fenced(i, outcome) ==
    /\ Mounted
    /\ i \in 1..Len(displayReqs)
    /\ IF displayReqs[i].sources = selectedSources /\ displayReqs[i].keywords = Keywords
       THEN DisplayFinish(displayReqs[i], outcome)
       ELSE /\ loadingDisplay' = FALSE
            /\ UNCHANGED <<error, successMessage, resultVars, crashed>>
    /\ displayReqs' = Without(displayReqs, i)
    /\ UNCHANGED <<snapshot, loading, totalInDB, selectionVars,
                   scrapeReqs, countReqs, deleteReqs>>

DisplaySettled(i, outcome) ==
    /\ Mounted
    /\ i \in 1..Len(displayReqs)
    /\ DisplayFinish(displayReqs[i], outcome)
    /\ displayReqs' = Without(displayReqs, i)
    /\ UNCHANGED <<snapshot, loading, totalInDB, selectionVars,
                   scrapeReqs, countReqs, deleteReqs>>

\* SumTiles counting the documents instead of their tiles
SumTiles_CountDocs(docs) == Len(docs)

\* processedDocuments.reduce((sum, doc) => sum + doc.tiles.length, 0)
RECURSIVE SumTiles(_)
SumTiles(docs) ==
    IF docs = <<>> THEN 0 ELSE Len(Head(docs).tiles) + SumTiles(Tail(docs))

\* the counts that the render and the handler compute from a ResultSet:
\* {processedDocuments.length} document, the reduce over the tiles,
\* {regularDocuments.length} documents, and totalDocs
Summarize(tiled, plain) ==
    [tiledCount |-> Len(tiled),
     plainCount |-> Len(plain),
     totalDocs |-> Len(tiled) + Len(plain),
     aggregateTileCount |-> SumTiles(tiled)]

(***************************************************************************)
(* fetchTotalCount and clearDatabase                                       *)
(***************************************************************************)
\* the Refresh Count button
FetchTotalCount ==
    /\ Mounted
    /\ countReqs < MaxCountReqs
    /\ countReqs' = countReqs + 1
    /\ UNCHANGED <<snapshot, crashed, loading, loadingDisplay, error,
                   successMessage, totalInDB, selectionVars, resultVars,
                   scrapeReqs, displayReqs, deleteReqs>>
    /\ UNCHANGED backend

\* fetchTotalCount after the await
CountFinish(outcome) ==
    IF outcome.kind = "ok" THEN totalInDB' = outcome.data.total
    ELSE UNCHANGED totalInDB

CountSettled(outcome) ==
    /\ Mounted
    /\ countReqs > 0
    /\ CountFinish(outcome)
    /\ countReqs' = countReqs - 1
    /\ UNCHANGED <<snapshot, crashed, loading, loadingDisplay, error,
                   successMessage, selectionVars, resultVars,
                   scrapeReqs, displayReqs, deleteReqs>>

\* ClearDatabase without the return on a refused window.confirm
ClearDatabase_NoConfirm(confirmed) ==
    /\ Mounted
    /\ deleteReqs < MaxDeleteReqs
    /\ deleteReqs' = deleteReqs + 1
    /\ UNCHANGED <<snapshot, crashed, loading, loadingDisplay, error,
                   successMessage, totalInDB, selectionVars, resultVars,
                   scrapeReqs, displayReqs, countReqs>>
    /\ UNCHANGED backend

\* clearDatabase up to the await; confirmed is the answer to window.confirm
ClearDatabase(confirmed) ==
    /\ Mounted
    /\ confirmed => deleteReqs < MaxDeleteReqs
    /\ IF ~confirmed THEN UNCHANGED deleteReqs
       ELSE deleteReqs' = deleteReqs + 1
    /\ UNCHANGED <<snapshot, crashed, loading, loadingDisplay, error,
                   successMessage, totalInDB, selectionVars, resultVars,
                   scrapeReqs, displayReqs, countReqs>>
    /\ UNCHANGED backend

\* clearDatabase after the await
ClearFinish(outcome) ==
    IF outcome.kind = "ok"
    THEN /\ IF snapshot = "current"
            THEN /\ regularDocuments' = <<>>
                 /\ processedDocuments' = <<>>
                 /\ UNCHANGED documents
            ELSE /\ documents' = JSArray(<<>>)
                 /\ UNCHANGED <<regularDocuments, processedDocuments>>
         /\ totalInDB' = 0
         /\ successMessage' = MsgCleared
         /\ UNCHANGED error
    ELSE IF outcome.kind = "threw"
    THEN /\ error' = MsgClearFailed
         /\ UNCHANGED <<successMessage, totalInDB, resultVars>>
    ELSE UNCHANGED <<error, successMessage, totalInDB, resultVars>>

ClearSettled(outcome) ==
    /\ Mounted
    /\ deleteReqs > 0
    /\ ClearFinish(outcome)
    /\ deleteReqs' = deleteReqs - 1
    /\ UNCHANGED <<snapshot, crashed, loading, loadingDisplay, selectionVars,
                   scrapeReqs, displayReqs, countReqs>>

(***************************************************************************)
(* The specification                                                       *)
(***************************************************************************)
Toggle == \E id \in ClickedSources : HandleSourceToggle(id)
TypeKeyword == \E text \in InputTexts : SetKeywordInput(text)
AddKeyword == KeywordRoom(MaxKeywords) /\ AddKeywordEntry
KeyPress == \E key \in Keys : KeywordRoom(MaxKeywords) /\ HandleKeyPress(key)
RemoveKeyword == \E index \in 0..(MaxKeywords - 1) : RemoveKeywordEntry(index)
ScrapeDone ==
    /\ \E i \in 1..Len(scrapeReqs), o \in ScrapeOutcomes : ScrapeSettled(i, o)
    /\ UNCHANGED backend
DisplayDone ==
    /\ \E i \in 1..Len(displayReqs), o \in DisplayOutcomes : DisplaySettled(i, o)
    /\ UNCHANGED backend
CountDone ==
    /\ \E o \in CountOutcomes : CountSettled(o)
    /\ UNCHANGED backend
ClearClick == \E confirmed \in BOOLEAN : ClearDatabase(confirmed)
ClearDone ==
    /\ \E o \in DeleteOutcomes : ClearSettled(o)
    /\ UNCHANGED backend

Next ==
    \/ Toggle
    \/ TypeKeyword
    \/ AddKeyword
    \/ KeyPress
    \/ RemoveKeyword
    \/ HandleScrapeAndSave
    \/ ScrapeDone
    \/ HandleDisplayFromDB
    \/ DisplayDone
    \/ FetchTotalCount
    \/ CountDone
    \/ ClearClick
    \/ ClearDone

Spec == Init /\ [][Next]_vars

(***************************************************************************)
(* Spec with the scheduling of the run time: a fetch that is in flight      *)
(* settles (the premise of the liveness claims), and the event loop then   *)
(* runs the continuation of the handler that awaits it.                    *)
(***************************************************************************)
FairSpec == Spec /\ WF_vars(ScrapeDone) /\ WF_vars(DisplayDone)

(***************************************************************************)
(* The selection store on its own, with the retrieval that serializes it:  *)
(* more source buttons, more keyword texts and longer keyword lists than   *)
(* Spec can afford, no acquisition, no count and no clearDatabase.         *)
(***************************************************************************)
StoreToggle == \E id \in StoreSources : HandleSourceToggle(id)
StoreType == \E text \in StoreTexts : SetKeywordInput(text)
StoreAdd == KeywordRoom(MaxStoreKeywords) /\ AddKeywordEntry
StoreKeyPress ==
    \E key \in Keys : KeywordRoom(MaxStoreKeywords) /\ HandleKeyPress(key)
StoreRemove == \E index \in 0..(MaxStoreKeywords - 1) : RemoveKeywordEntry(index)

StoreNext ==
    \/ StoreToggle
    \/ StoreType
    \/ StoreAdd
    \/ StoreKeyPress
    \/ StoreRemove
    \/ HandleDisplayFromDB
    \/ DisplayDone

StoreSpec == Init /\ [][StoreNext]_vars

(***************************************************************************)
(* The count and the clear against the service: a request is served at     *)
(* some moment after it was sent, its reply carries what the service read  *)
(* or did at that moment, and replies reach the client in any order.       *)
(***************************************************************************)
\* GET /documents?limit=1 served: the reply carries the store's count
ServeCount ==
    /\ Len(backend.countReplies) < countReqs
    /\ \E reply \in { Ok(TotalData(backend.persisted)) } \cup Failures :
          backend' = [backend EXCEPT !.countReplies = Append(@, reply)]
    /\ UNCHANGED <<snapshot, crashed, loading, loadingDisplay, error,
                   successMessage, totalInDB, selectionVars, resultVars,
                   scrapeReqs, displayReqs, countReqs, deleteReqs>>

\* DELETE /documents served: a 2xx reply means the store was cleared
ServeDelete ==
    /\ Len(backend.deleteReplies) < deleteReqs
    /\ \E reply \in DeleteOutcomes :
          backend' = [backend EXCEPT
                         !.persisted = IF reply.kind = "ok" THEN 0 ELSE @,
                         !.deleteReplies = Append(@, reply)]
    /\ UNCHANGED <<snapshot, crashed, loading, loadingDisplay, error,
                   successMessage, totalInDB, selectionVars, resultVars,
                   scrapeReqs, displayReqs, countReqs, deleteReqs>>

\* a count reply reaches fetchTotalCount's continuation
CountReceived ==
    \E k \in 1..Len(backend.countReplies) :
        /\ CountSettled(backend.countReplies[k])
        /\ backend' = [backend EXCEPT !.countReplies = RemoveAt(@, k - 1)]

\* a delete reply reaches clearDatabase's continuation
ClearReceived ==
    \E k \in 1..Len(backend.deleteReplies) :
        /\ ClearSettled(backend.deleteReplies[k])
        /\ backend' = [backend EXCEPT !.deleteReplies = RemoveAt(@, k - 1)]

BackendNext ==
    \/ FetchTotalCount
    \/ ClearClick
    \/ ServeCount
    \/ ServeDelete
    \/ CountReceived
    \/ ClearReceived

BackendSpec == Init /\ [][BackendNext]_vars

(***************************************************************************)
(* Claims                                                                  *)
(***************************************************************************)
\* a handler is invoked while selectedSources is empty
InvokedWithEmptySelection ==
    /\ Len(selectedSources) = 0
    /\ HandleScrapeAndSave \/ HandleDisplayFromDB

\* every request body on the network carries a non-empty sources list
BodiesHaveSources ==
    /\ \A i \in 1..Len(scrapeReqs) : Len(scrapeReqs[i].sources) > 0
    /\ \A i \in 1..Len(displayReqs) : Len(displayReqs[i].sources) > 0

\* C1: invoking handleScrapeAndSave or handleDisplayFromDB while
\* selectedSources is empty dispatches no request, leaves both in-flight
\* flags as they are and sets a non-empty error; hence every /scrape and
\* /documents/process (or /documents/filter) request in flight carries a
\* non-empty sources list.
C1_EmptySelectionNeverDispatches ==
    /\ []BodiesHaveSources
    /\ [][InvokedWithEmptySelection =>
            /\ UNCHANGED <<reqVars, loading, loadingDisplay>>
            /\ Shown(error')]_vars

\* the retrieval was invoked with no source selected: its validation message
\* is on screen, no request is in flight and no flag is set
C1_Witness ==
    /\ Len(selectedSources) = 0
    /\ error = MsgSelectSourceDisplay
    /\ scrapeReqs = <<>> /\ displayReqs = <<>>
    /\ ~loading /\ ~loadingDisplay

\* C2: in every reachable state at most one of successMessage and error is
\* non-empty.
C2_AtMostOneSlot == ~(Shown(error) /\ Shown(successMessage))

\* an acquisition, retrieval or Clear-Database request settles, or an
\* invocation is rejected by the validation
ActionCompleted ==
    \/ ScrapeDone
    \/ DisplayDone
    \/ ClearDone
    \/ InvokedWithEmptySelection

\* C3: before the first action neither successMessage nor error is
\* populated; after any completed action exactly one of them is.
C3_ExactlyOneAfterAction ==
    /\ ~Shown(error) /\ ~Shown(successMessage)
    /\ [][ActionCompleted => (Shown(error') # Shown(successMessage'))]_vars

\* a user action puts a request on the network
RequestStarted ==
    \/ Len(scrapeReqs') > Len(scrapeReqs)
    \/ Len(displayReqs') > Len(displayReqs)
    \/ deleteReqs' > deleteReqs

\* C4: every user action that starts a request (acquisition, retrieval,
\* confirmed Clear-Database) has cleared both successMessage and error when
\* its request is dispatched.
C4_StartClearsBoth ==
    [][RequestStarted => (error' = EmptyString /\ successMessage' = EmptyString)]_vars

\* a retrieval (an acquisition) request leaves the network in this step
DisplayLeaves == Len(displayReqs') < Len(displayReqs)
ScrapeLeaves == Len(scrapeReqs') < Len(scrapeReqs)

\* the retrieval request of position i settles with one of the outcomes
DisplayFailedAt(i) == \E o \in Failures : DisplaySettled(i, o)
ScrapeFailedAt(i) == \E o \in Failures : ScrapeSettled(i, o)
DisplayBodies == PartitionedBodies \cup FlatBodies

\* C5 as claimed: a failed request changes nothing but error and the
\* controller's own flag; after a failed retrieval the ResultSet equals its
\* value just before the retrieval was invoked, and a failed acquisition
\* leaves totalInDB and the ResultSet unchanged.
C5_FailureRestoresResultSet ==
    [][/\ \A i \in 1..Len(displayReqs) :
            (DisplayLeaves /\ DisplayFailedAt(i)) => ResultSet' = displayReqs[i].before
       /\ \A i \in 1..Len(scrapeReqs) :
            (ScrapeLeaves /\ ScrapeFailedAt(i)) => UNCHANGED <<totalInDB, resultVars>>]_vars

\* C5 as amended: the completion of a failed request changes nothing but
\* error, the controller's own flag and its request; a failed acquisition
\* leaves totalInDB and the ResultSet as they were; after a failed retrieval
\* the ResultSet of the current component is empty (it was cleared at the
\* invocation), and the legacy component's documents are as they were before
\* the completion.
C5_FailureChangesOnlyNotification ==
    [][/\ \A i \in 1..Len(scrapeReqs) :
            (ScrapeLeaves /\ ScrapeFailedAt(i)) =>
                UNCHANGED <<snapshot, crashed, loadingDisplay, successMessage,
                            totalInDB, selectionVars, resultVars,
                            displayReqs, countReqs, deleteReqs>>
       /\ \A i \in 1..Len(displayReqs) :
            (DisplayLeaves /\ DisplayFailedAt(i)) =>
                /\ UNCHANGED <<snapshot, crashed, loading, successMessage,
                               totalInDB, selectionVars, resultVars,
                               scrapeReqs, countReqs, deleteReqs>>
                /\ snapshot = "current" =>
                       processedDocuments' = <<>> /\ regularDocuments' = <<>>]_vars

\* a retrieval of the current component has failed and the ResultSet is empty
C5_Witness ==
    /\ snapshot = "current"
    /\ error = MsgDisplayFailed
    /\ ~loadingDisplay
    /\ processedDocuments = <<>> /\ regularDocuments = <<>>

\* C6: at most one acquisition and at most one retrieval request is in
\* flight; a flag is true exactly while its controller's request is in
\* flight, and while it is true the controller's button cannot be used.
C6_OneRequestPerController ==
    /\ Len(scrapeReqs) <= 1
    /\ Len(displayReqs) <= 1
    /\ loading <=> Len(scrapeReqs) > 0
    /\ loadingDisplay <=> Len(displayReqs) > 0
    /\ loading => ~ENABLED HandleScrapeAndSave
    /\ loadingDisplay => ~ENABLED HandleDisplayFromDB

\* a retrieval is in flight and its button is disabled
C6_Witness ==
    /\ loadingDisplay
    /\ Len(displayReqs) = 1
    /\ ~loading
    /\ ~ENABLED HandleDisplayFromDB

\* C7: a successful retrieval replaces the ResultSet by the response:
\* processedDocuments and regularDocuments (documents, in the legacy
\* component) are the response's sequences, in the response's order, and hold
\* nothing else.
C7_ResultSetReplaced ==
    [][DisplayLeaves => \A i \in 1..Len(displayReqs), b \in DisplayBodies :
          DisplaySettled(i, Ok(b)) =>
              IF snapshot = "current"
              THEN /\ processedDocuments' = OrEmptyArray(b.processed_documents)
                   /\ regularDocuments' = OrEmptyArray(b.regular_documents)
              ELSE documents' = b.documents]_vars

\* a response with a tiled and a plain document is on screen
C7_Witness ==
    /\ snapshot = "current"
    /\ processedDocuments = <<TiledDoc(2), TiledDoc(1)>>
    /\ regularDocuments = <<PlainDoc(3)>>
    /\ successMessage.n = 3
    /\ ~loadingDisplay

\* the plain and the tiled documents of the ResultSet
PlainOfResultSet ==
    IF snapshot = "current" THEN regularDocuments ELSE OrEmptyArray(documents)
TiledOfResultSet ==
    IF snapshot = "current" THEN processedDocuments ELSE <<>>

\* C8 as claimed: the retrieval controller accepts both response shapes: the
\* documents of a flat response become the plain documents of the ResultSet,
\* and a partitioned response is stored as tiled and plain sequences.
C8_BothShapesAccepted ==
    [][DisplayLeaves => \A i \in 1..Len(displayReqs) :
          /\ \A b \in FlatBodies :
                DisplaySettled(i, Ok(b)) =>
                    /\ PlainOfResultSet' = b.documents.items
                    /\ TiledOfResultSet' = <<>>
          /\ \A b \in PartitionedBodies :
                DisplaySettled(i, Ok(b)) =>
                    /\ PlainOfResultSet' = b.regular_documents.items
                    /\ TiledOfResultSet' = b.processed_documents.items]_vars

\* C8 as amended: each component accepts the one shape of the endpoint it
\* calls.  The current component stores a partitioned response as tiled and
\* plain sequences and reads a flat response as an empty result (empty
\* ResultSet, the no-documents error); the legacy component stores a flat
\* response as its documents, and on a partitioned response sets documents
\* to undefined, reports a failed retrieval and its next render throws.
C8_EachComponentAcceptsOneShape ==
    [][DisplayLeaves => \A i \in 1..Len(displayReqs) :
          /\ \A b \in PartitionedBodies :
                DisplaySettled(i, Ok(b)) =>
                    IF snapshot = "current"
                    THEN /\ processedDocuments' = b.processed_documents.items
                         /\ regularDocuments' = b.regular_documents.items
                    ELSE /\ documents' = JSUndefined
                         /\ error' = MsgDisplayFailedLegacy
                         /\ crashed'
          /\ \A b \in FlatBodies :
                DisplaySettled(i, Ok(b)) =>
                    IF snapshot = "current"
                    THEN /\ processedDocuments' = <<>>
                         /\ regularDocuments' = <<>>
                         /\ error' = MsgNoDocuments(displayReqs[i].sources,
                                                    displayReqs[i].keywords)
                         /\ UNCHANGED successMessage
                    ELSE /\ documents' = b.documents
                         /\ ~crashed']_vars

\* the legacy component has received a partitioned response
C8_Witness ==
    /\ snapshot = "legacy"
    /\ crashed
    /\ documents = JSUndefined
    /\ error = MsgDisplayFailedLegacy

\* the response holds no document at all
ZeroDocuments(b) ==
    IF snapshot = "current" THEN TotalDocs(b) = 0
    ELSE b.documents.type = "array" /\ Len(b.documents.items) = 0

\* the texts of the success messages that the retrieval does not write
OtherSuccessTexts == {"", MsgScraped(0).text, MsgCleared.text}

\* the message names every element of the list
NamesAll(listed, wanted) ==
    \A k \in 1..Len(wanted) : Includes(listed, wanted[k])

C10_TileCountIsSum ==
    [][DisplayLeaves => \A i \in 1..Len(displayReqs), b \in DisplayBodies :
          (/\ snapshot = "current"
           /\ DisplaySettled(i, Ok(b))
           /\ LengthOrZero(b.processed_documents) > 0) =>
              successMessage'.tiles =
                  JSNumber(SumTiles(b.processed_documents.items))]_vars

\* a retrieval request enters the network in this step
DisplayDispatched == Len(displayReqs') > Len(displayReqs)

\* the keywords of a query: null or a non-empty list
WellFormedKeywords(k) ==
    \/ k = JSNull
    \/ k.type = "array" /\ k.items # <<>>

\* C11: the query that handleDisplayFromDB of App.js dispatches has keywords
\* null exactly when keywordEntries is empty and otherwise keywordEntries
\* itself, entry by entry in insertion order, never an empty list; building
\* the query changes nothing of the selection, so that building it again
\* right after yields an equal payload.
C11_FilterQueryKeywords ==
    /\ [](snapshot = "current" =>
            \A i \in 1..Len(displayReqs) : WellFormedKeywords(displayReqs[i].keywords))
    /\ [][(snapshot = "current" /\ DisplayDispatched) =>
            LET query == displayReqs'[Len(displayReqs')] IN
            /\ (query.keywords = JSNull) <=> (keywordEntries = <<>>)
            /\ keywordEntries # <<>> => query.keywords = JSArray(keywordEntries)
            /\ query.sources = selectedSources
            /\ UNCHANGED selectionVars
            /\ Keywords' = query.keywords
            /\ ScrapeBody'.sources = query.sources]_vars

\* a query with two different keywords, in the order they were added, is on
\* the network
C11_Witness ==
    /\ snapshot = "current"
    /\ Len(displayReqs) = 1
    /\ displayReqs[1].keywords = JSArray(<< <<"a", " ", "b">>, <<"a">> >>)
    /\ keywordEntries = << <<"a", " ", "b">>, <<"a">> >>

\* C12: clearDatabase whose window.confirm is refused dispatches no request
\* and leaves totalInDB, the ResultSet, error and successMessage unchanged;
\* a confirmed clearDatabase dispatches one DELETE, and when that request is
\* answered with success totalInDB becomes 0, the ResultSet becomes empty
\* and successMessage is set.
C12_ClearNeedsConfirmation ==
    /\ [][ClearDatabase(FALSE) =>
            UNCHANGED <<reqVars, totalInDB, resultVars, error, successMessage>>]_vars
    /\ [][ClearDatabase(TRUE) =>
            /\ deleteReqs' = deleteReqs + 1
            /\ UNCHANGED <<scrapeReqs, displayReqs, countReqs>>]_vars
    /\ [][ClearSettled(Ok(NoData)) =>
            /\ totalInDB' = 0
            /\ PlainOfResultSet' = <<>> /\ TiledOfResultSet' = <<>>
            /\ successMessage' = MsgCleared]_vars

\* a confirmed clearDatabase has been answered with success: its message is
\* shown over an empty ResultSet and a count of 0, nothing else in flight
C12_Witness ==
    /\ successMessage = MsgCleared
    /\ totalInDB = 0
    /\ PlainOfResultSet = <<>> /\ TiledOfResultSet = <<>>
    /\ deleteReqs = 0 /\ displayReqs = <<>> /\ countReqs = 0

\* C13: a confirmed clearDatabase whose DELETE fails, by a response that is
\* not ok or by a rejected fetch, leaves an error on screen and leaves
\* totalInDB and the ResultSet unchanged.
C13_FailedClearSetsError ==
    [][\A o \in Failures : ClearSettled(o) =>
          /\ Shown(error')
          /\ UNCHANGED <<totalInDB, resultVars>>]_vars

\* C14: clearDatabase is never in flight twice: at most one DELETE request
\* is outstanding in every reachable state.
C14_OneDeleteAtATime == deleteReqs <= 1

\* the error texts that come from the retrieval and from clearDatabase
ErrorTextsOfOthers ==
    {"", MsgSelectSourceDisplay.text, MsgDisplayFailed.text,
     MsgDisplayFailedLegacy.text, MsgNoDocuments(<<>>, JSNull).text,
     MsgClearFailed.text}

DisplayFailureMessage ==
    IF snapshot = "current" THEN MsgDisplayFailed ELSE MsgDisplayFailedLegacy

\* C16: when a /scrape or a retrieval request fails, by a response that is
\* not ok or by a rejected fetch, the handler sets the error of its catch
\* block (the advice to check that the backend, MongoDB or the Gemini API is
\* available), does not write successMessage, dispatches no request at all
\* (no retry, no count request) and clears its own flag.
C16_FailureSetsGenericError ==
    [][/\ ScrapeLeaves => \A i \in 1..Len(scrapeReqs), o \in Failures :
            ScrapeSettled(i, o) =>
                /\ error' = MsgScrapeFailed
                /\ UNCHANGED successMessage
                /\ scrapeReqs' = <<>>
                /\ UNCHANGED <<displayReqs, countReqs, deleteReqs>>
                /\ ~loading'
       /\ DisplayLeaves => \A i \in 1..Len(displayReqs), o \in Failures :
            DisplaySettled(i, o) =>
                /\ error' = DisplayFailureMessage
                /\ UNCHANGED successMessage
                /\ displayReqs' = <<>>
                /\ UNCHANGED <<scrapeReqs, countReqs, deleteReqs>>
                /\ ~loadingDisplay']_vars

\* a retrieval has failed: its error is shown, no success message, the flag
\* is down and no request of any kind is in flight
C16_Witness ==
    /\ Mounted
    /\ error = DisplayFailureMessage
    /\ ~Shown(successMessage)
    /\ ~loadingDisplay /\ ~loading
    /\ scrapeReqs = <<>> /\ displayReqs = <<>>
    /\ countReqs = 0 /\ deleteReqs = 0

\* a controller is InFlight exactly while its request is on the network
InFlightMeansRequest ==
    /\ loading <=> scrapeReqs # <<>>
    /\ loadingDisplay <=> displayReqs # <<>>

\* Idle -> InFlight is the dispatch of one request by the controller's own
\* handler; InFlight -> {Succeeded, Failed} is the completion of that
\* request, which leaves the message of its outcome
ControllerSteps ==
    /\ (~loading /\ loading') =>
            HandleScrapeAndSave /\ Len(scrapeReqs') = Len(scrapeReqs) + 1
    /\ (loading /\ ~loading') =>
            /\ ScrapeDone
            /\ \/ Shown(successMessage') /\ successMessage'.text = MsgScraped(0).text
               \/ error' = MsgScrapeFailed
    /\ (~loadingDisplay /\ loadingDisplay') =>
            HandleDisplayFromDB /\ Len(displayReqs') = Len(displayReqs) + 1
    /\ (loadingDisplay /\ ~loadingDisplay') =>
            /\ DisplayDone
            /\ \/ successMessage'.text = MsgDisplaying(0, <<>>, JSNull, JSNull, JSNull).text
               \/ Shown(error')

\* C17: each controller goes Idle -> InFlight -> {Succeeded, Failed} and can
\* be entered again: a raised flag means a request in flight, and given that
\* a request in flight settles, a controller that is InFlight leaves it, its
\* button is enabled again and its handler can be invoked anew (unless the
\* older component has been taken down by a render error meanwhile).
\* Leaving InFlight is stated as: the flag is down again and again, and
\* whenever it is down the button is enabled and the handler can be invoked.
C17_ControllersReenter ==
    /\ []InFlightMeansRequest
    /\ [][ControllerSteps]_vars
    /\ [](~loading /\ ~crashed =>
             ~ScrapeButtonDisabled /\ ENABLED HandleScrapeAndSave)
    /\ [](~loadingDisplay /\ ~crashed =>
             ~DisplayButtonDisabled /\ ENABLED HandleDisplayFromDB)
    /\ []<>(crashed \/ ~loading)
    /\ []<>(crashed \/ ~loadingDisplay)

\* the retrieval is InFlight again after it has succeeded once: documents of
\* an earlier response were on screen when the request in flight was built
C17_Witness ==
    /\ snapshot = "current"
    /\ loadingDisplay
    /\ Len(displayReqs) = 1
    /\ displayReqs[1].before[2] # <<>>

\* the ids of a list, as a set
IdsOf(list) == { list[i] : i \in 1..Len(list) }

\* selectedSources after two clicks on the button of sourceId
ToggledTwice(sourceId) ==
    ToggleSource(ToggleSource(selectedSources, sourceId), sourceId)

\* C18 as claimed: toggling the same source id twice in succession gives
\* back selectedSources, as a set of ids and as the ordered list that the
\* request bodies and the messages serialize, whatever the id and the
\* selection.
C18_ToggleTwiceRestoresList ==
    \A id \in StoreSources :
        /\ IdsOf(ToggledTwice(id)) = IdsOf(selectedSources)
        /\ ToggledTwice(id) = selectedSources

\* C18: toggling the same source id twice in succession gives back the same
\* set of selected ids, each of them once.  The ordered list is the same
\* when the id was not selected or was the last of the list; a selected id
\* that was not the last has moved to the end of the list.
C18_ToggleTwiceRestoresSet ==
    \A id \in StoreSources :
        /\ IdsOf(ToggledTwice(id)) = IdsOf(selectedSources)
        /\ Len(ToggledTwice(id)) = Len(selectedSources)
        /\ IF Includes(selectedSources, id)
           THEN /\ ToggledTwice(id) = Append(FilterOut(selectedSources, id), id)
                /\ (ToggledTwice(id) = selectedSources)
                       <=> (selectedSources[Len(selectedSources)] = id)
           ELSE ToggledTwice(id) = selectedSources

\* two sources are selected, and two clicks on the first of them would leave
\* the same two sources in the other order
C18_Witness ==
    /\ selectedSources = <<"Income Tax", "RBI">>
    /\ ToggledTwice("Income Tax") = <<"RBI", "Income Tax">>
    /\ ToggledTwice("RBI") = selectedSources

\* the text is empty or made of whitespace only
IsBlank(text) == \A i \in 1..Len(text) : text[i] \in Whitespace

\* entry is text without its leading and trailing whitespace: the part of
\* text from its first to its last character that is not whitespace
IsTrimmedFormOf(entry, text) ==
    \E a, b \in 1..Len(text) :
        /\ a <= b
        /\ text[a] \notin Whitespace /\ text[b] \notin Whitespace
        /\ \A i \in 1..(a - 1) : text[i] \in Whitespace
        /\ \A i \in (b + 1)..Len(text) : text[i] \in Whitespace
        /\ entry = SubSeq(text, a, b)

\* addKeywordEntry runs: by the Add button or by Enter in the keyword input
AddKeywordInvoked == AddKeywordEntry \/ HandleKeyPress("Enter")

\* C19: addKeywordEntry with a keywordInput that is empty or whitespace only
\* changes neither keywordEntries nor keywordInput; with any other input it
\* appends the trimmed text as the last entry, whether or not that text is
\* in the list already, leaves the entries before it as they are, and
\* empties keywordInput.
C19_AddKeyword ==
    /\ [](IsBlank(keywordInput) <=> Trim(keywordInput) = <<>>)
    /\ [][AddKeywordInvoked =>
            IF IsBlank(keywordInput)
            THEN UNCHANGED <<keywordEntries, keywordInput>>
            ELSE /\ Len(keywordEntries') = Len(keywordEntries) + 1
                 /\ SubSeq(keywordEntries', 1, Len(keywordEntries)) = keywordEntries
                 /\ IsTrimmedFormOf(keywordEntries'[Len(keywordEntries')], keywordInput)
                 /\ keywordInput' = <<>>]_vars

\* the same text was added twice, typed with spaces around it: both entries
\* are in the list, trimmed, and the input is empty again
C19_Witness ==
    /\ keywordEntries = << <<"a">>, <<"a">> >>
    /\ keywordInput = <<>>

\* C20: in every reachable state, whatever was added and removed, no entry
\* of keywordEntries is empty or whitespace only, and every entry is its own
\* trimmed form: it begins and ends with a character that is not whitespace.
C20_EntriesTrimmed ==
    \A i \in 1..Len(keywordEntries) :
        /\ ~IsBlank(keywordEntries[i])
        /\ Trim(keywordEntries[i]) = keywordEntries[i]
        /\ IsTrimmedFormOf(keywordEntries[i], keywordEntries[i])

\* after additions a list of two entries, one of them with a space inside,
\* while a whitespace-only text waits in the input
C20_Witness ==
    /\ Len(keywordEntries) = 2
    /\ keywordEntries[2] = <<"a", " ", "b">>
    /\ keywordInput = <<" ">>

\* the indexes next to the positions of keywordEntries, on both sides
OutOfRangeIndexes == {-1, Len(keywordEntries), Len(keywordEntries) + 1}

\* C21: removeKeywordEntry(index) with an index outside
\* 0..keywordEntries.length - 1 fails with the outcome IndexOutOfRange and
\* leaves keywordEntries unchanged.
C21_OutOfRangeFails ==
    \A index \in OutOfRangeIndexes :
        /\ RemoveKeywordEntryOutcome(index).kind = "IndexOutOfRange"
        /\ RemoveKeywordEntryOutcome(index).entries = keywordEntries

\* C22: removeKeywordEntry(index) with an index of the list removes the
\* entry at that position and no other, equal or not: the list is one entry
\* shorter, the entries before the position stay where they are and those
\* after it move up by one, in their order.
C22_RemoveByPosition ==
    [][\A index \in 0..(Len(keywordEntries) - 1) :
          RemoveKeywordEntry(index) =>
              /\ Len(keywordEntries') = Len(keywordEntries) - 1
              /\ \A k \in 1..Len(keywordEntries') :
                    keywordEntries'[k] =
                        IF k <= index THEN keywordEntries[k]
                        ELSE keywordEntries[k + 1]]_vars

\* the first of two keywords was removed while the query that carries both
\* is in flight: the second one is what is left
C22_Witness ==
    /\ snapshot = "current"
    /\ Len(displayReqs) = 1
    /\ displayReqs[1].keywords = JSArray(<< <<"a">>, <<"a", " ", "b">> >>)
    /\ keywordEntries = << <<"a", " ", "b">> >>

\* the tiles of a list of documents, each named by its document and its place
TilesOf(docs) ==
    UNION { { <<d, t>> : t \in 1..Len(docs[d].tiles) } : d \in 1..Len(docs) }

\* the summary is the one of these two lists
SummaryFits(summary, tiled, plain) ==
    /\ summary.tiledCount = Cardinality(DOMAIN tiled)
    /\ summary.plainCount = Cardinality(DOMAIN plain)
    /\ summary.totalDocs = summary.tiledCount + summary.plainCount
    /\ summary.aggregateTileCount = Cardinality(TilesOf(tiled))

\* the message of a successful retrieval
IsDisplaying(m) == m.text = MsgDisplaying(0, <<>>, JSNull, JSNull, JSNull).text

\* C23: the summary of any ResultSet counts its tiled documents, its plain
\* documents, their total and the tiles of the tiled documents; the counts
\* on screen are those of the ResultSet of the present state: the headers
\* are computed from it, and a message that displays a number of documents
\* is on screen only with the ResultSet it counted.
C23_SummaryOfCurrentResultSet ==
    /\ \A tiled \in TiledLists, plain \in PlainLists :
           SummaryFits(Summarize(tiled, plain), tiled, plain)
    /\ SummaryFits(Summarize(TiledOfResultSet, PlainOfResultSet),
                   TiledOfResultSet, PlainOfResultSet)
    /\ IsDisplaying(successMessage) =>
           /\ successMessage.n =
                  Summarize(TiledOfResultSet, PlainOfResultSet).totalDocs
           /\ successMessage.aiDocs =
                  Summarize(TiledOfResultSet, PlainOfResultSet).tiledCount

\* two tiled documents with three tiles in all and one plain document are on
\* screen under the message that counts three documents
C23_Witness ==
    /\ Summarize(processedDocuments, regularDocuments) =
          [tiledCount |-> 2, plainCount |-> 1, totalDocs |-> 3,
           aggregateTileCount |-> 3]
    /\ IsDisplaying(successMessage)
    /\ successMessage.aiDocs = 2

\* C24: the acquisition and the retrieval are independent: no step of
\* handleScrapeAndSave (dispatch, success, failure) changes loadingDisplay
\* or the retrieval requests in flight, no step of handleDisplayFromDB
\* changes loading or the acquisition requests in flight, and each button
\* is disabled by its own flag only.
C24_ControllersIndependent ==
    /\ [](/\ ScrapeButtonDisabled <=> loading
          /\ DisplayButtonDisabled <=> loadingDisplay)
    /\ [][/\ (HandleScrapeAndSave \/ ScrapeDone) =>
                UNCHANGED <<loadingDisplay, displayReqs>>
          /\ (HandleDisplayFromDB \/ DisplayDone) =>
                UNCHANGED <<loading, scrapeReqs>>]_vars

\* both requests are in flight at once, each under its own flag
C24_Witness ==
    /\ loading /\ loadingDisplay
    /\ Len(scrapeReqs) = 1 /\ Len(displayReqs) = 1

\* the selection on screen is no longer the one the request was built from
SelectionChangedSince(req) ==
    \/ req.sources # selectedSources
    \/ snapshot = "current" /\ req.keywords # Keywords

\* the message that the completion writes for this response
MessageFor(b) == IF ZeroDocuments(b) THEN error' ELSE successMessage'

\* C25: the response of a retrieval is applied also when the sources or the
\* keywords were changed while the request was in flight: the ResultSet is
\* set from the response, and the message written names the sources and the
\* keywords of the request as dispatched, not the selection of the moment.
C25_StaleResponseApplied ==
    [][DisplayLeaves => \A i \in 1..Len(displayReqs), b \in DisplayBodies :
          (/\ DisplaySettled(i, Ok(b))
           /\ SelectionChangedSince(displayReqs[i])
           /\ snapshot = "legacy" => b.documents.type = "array") =>
              /\ IF snapshot = "current"
                 THEN /\ processedDocuments' = OrEmptyArray(b.processed_documents)
                      /\ regularDocuments' = OrEmptyArray(b.regular_documents)
                      /\ MessageFor(b).keywords = displayReqs[i].keywords
                 ELSE documents' = b.documents
              /\ MessageFor(b).sources = displayReqs[i].sources
              /\ UNCHANGED selectionVars
              /\ ~loadingDisplay']_vars

\* a query for RBI with a keyword is in flight while the selection on screen
\* has become Income Tax with no keyword, and its response can be applied
C25_Witness ==
    /\ snapshot = "current"
    /\ Len(displayReqs) = 1
    /\ displayReqs[1].sources = <<"RBI">>
    /\ displayReqs[1].keywords = JSArray(<< <<"a">> >>)
    /\ selectedSources = <<"Income Tax">>
    /\ keywordEntries = <<>>
    /\ ENABLED DisplaySettled(1, Ok(ProcessData(JSArray(<<>>),
                                                JSArray(<<PlainDoc(3)>>),
                                                JSNumber(1))))

(***************************************************************************)
(* C26: with no acquisition issued after a Clear-Database request, once    *)
(* that clear has succeeded TotalCount is 0 in every later state, whatever *)
(* count requests were outstanding or are issued afterwards.  BackendSpec  *)
(* issues no acquisition and no retrieval, so successMessage is written by *)
(* a successful clear only and stays: it marks the states after a success. *)
(***************************************************************************)
C26_TotalCountStaysZero ==
    successMessage = MsgCleared => totalInDB = 0

\* every variable of the component and of the wire except selectedSources
NotSelectedSources ==
    <<snapshot, crashed, loading, loadingDisplay, error, successMessage,
      totalInDB, keywordInput, keywordEntries, resultVars, reqVars, backend>>

\* no id stands at two positions of the list
NoDuplicateIds(list) ==
    \A i, j \in 1..Len(list) : list[i] = list[j] => i = j

(***************************************************************************)
(* C27: in every reachable state selectedSources holds no id twice and     *)
(* only ids that were clicked, all of them ids of the source catalog; a    *)
(* step that changes selectedSources is a toggle of one clicked id; and a  *)
(* toggle changes selectedSources and nothing else.                        *)
(***************************************************************************)
C27_SelectionOwnedByToggle ==
    /\ [](/\ NoDuplicateIds(selectedSources)
          /\ IdsOf(selectedSources) \subseteq StoreSources \cap IdsOf(sources))
    /\ [][selectedSources' # selectedSources =>
            /\ StoreToggle
            /\ \E id \in StoreSources :
                   selectedSources' = ToggleSource(selectedSources, id)]_vars
    /\ [][StoreToggle =>
            /\ selectedSources' # selectedSources
            /\ UNCHANGED NotSelectedSources]_vars

\* both sources are selected, a tag is entered, a retrieval is in flight,
\* and a toggle can still be clicked
C27_Witness ==
    /\ Len(selectedSources) = 2
    /\ keywordEntries # <<>>
    /\ displayReqs # <<>>
    /\ ENABLED StoreToggle

====
